---- MODULE Spec2Model ----
(***************************************************************************)
(* ASSelect (asselect_leptos): the application shell of src/main.rs and    *)
(* the dataset model, feature index and geo primitives of src/yaixm.rs.    *)
(*                                                                         *)
(* Text (Rust String / &str) is a sequence of one-character strings.       *)
(* f64 values are exact decimals: a finite value is kept as an integer in  *)
(* a fixed unit (tenths of an arc-second, tenths of a metre); the rounding *)
(* of f64 arithmetic is not represented.  inf and NaN are kept as kinds.   *)
(***************************************************************************)
EXTENDS Integers, Sequences, FiniteSets

VARIABLES
    geo_arg,         \* the &str argument handed to a geo primitive
    geo_call,        \* which geo primitive has been applied to geo_arg
    geo_ret,         \* what it returned (or that it panicked)
    yaixm_pc,        \* fetch_yaixm: "send", "json" or "done"
    async_yaixm,     \* LocalResource<Option<Yaixm>> (App)
    ov_pc,           \* fetch_overlay, per path: "send", "text" or "done"
    ov_res,          \* fetch_overlay's result per path, once done
    async_overlay,   \* LocalResource<OverlayData> (App)
    view,            \* what App renders: "wait", "error" or "main"
    local_settings,  \* the "settings" entry of local storage
    settings,        \* MainView's working copy (signal)
    rat_ui,          \* names handed to <ExtraPanel id=Rat>
    loa_ui,          \* names handed to <ExtraPanel id=Loa>
    wave_ui,         \* names handed to <ExtraPanel id=Wave>
    sites_ui,        \* names handed to <AirspaceTab>
    blob,            \* the text of the last download
    conv,            \* the arguments of the last call of openair
    event            \* the handler that ran last

geo_vars == <<geo_arg, geo_call, geo_ret>>
fetch_vars == <<yaixm_pc, async_yaixm, ov_pc, ov_res, async_overlay>>
ui_vars == <<view, local_settings, settings, rat_ui, loa_ui, wave_ui, sites_ui>>
out_vars == <<blob, conv>>
vars == <<geo_vars, fetch_vars, ui_vars, out_vars, event>>

(***************************************************************************)
(* Option<T>                                                               *)
(***************************************************************************)
None == [some |-> FALSE]
Some(x) == [some |-> TRUE, val |-> x]

(***************************************************************************)
(* str::parse::<f64>: Sign? ( 'inf' | 'infinity' | 'nan' | Number ), with  *)
(* Number ::= ( Digit+ | Digit+ '.' Digit* | Digit* '.' Digit+ ) Exp? and  *)
(* Exp ::= 'e' Sign? Digit+, letters in either case.                       *)
(***************************************************************************)
Digits == {"0", "1", "2", "3", "4", "5", "6", "7", "8", "9"}

DigitVal(c) ==
    CASE c = "0" -> 0 [] c = "1" -> 1 [] c = "2" -> 2 [] c = "3" -> 3
      [] c = "4" -> 4 [] c = "5" -> 5 [] c = "6" -> 6 [] c = "7" -> 7
      [] c = "8" -> 8 [] c = "9" -> 9

ToLower(c) ==
    CASE c = "I" -> "i" [] c = "N" -> "n" [] c = "F" -> "f" [] c = "T" -> "t"
      [] c = "Y" -> "y" [] c = "A" -> "a" [] c = "E" -> "e" [] OTHER -> c

LowerStr(s) == [i \in 1..Len(s) |-> ToLower(s[i])]

AllDigits(s) == \A i \in 1..Len(s) : s[i] \in Digits

RECURSIVE NatOf(_)
NatOf(s) == IF s = <<>> THEN 0
            ELSE 10 * NatOf(SubSeq(s, 1, Len(s) - 1)) + DigitVal(s[Len(s)])

RECURSIVE Pow10(_)
Pow10(n) == IF n = 0 THEN 1 ELSE 10 * Pow10(n - 1)

\* The first index of s holding a character of cs, 0 when there is none.
FirstIdx(s, cs) ==
    IF \E i \in 1..Len(s) : s[i] \in cs
    THEN CHOOSE i \in 1..Len(s) : s[i] \in cs /\ \A j \in 1..(i - 1) : s[j] \notin cs
    ELSE 0

ParseFail == [ok |-> FALSE]
Finite(m, e) == [ok |-> TRUE, kind |-> "fin", m |-> m, e |-> e]
Infinite(sign) == [ok |-> TRUE, kind |-> "inf", m |-> sign, e |-> 0]
NaN == [ok |-> TRUE, kind |-> "nan", m |-> 0, e |-> 0]

\* Exp: "" is no exponent; otherwise 'e' Sign? Digit+.
ParseExp(s) ==
    IF s = <<>> THEN [ok |-> TRUE, e |-> 0]
    ELSE LET r == Tail(s)
             neg == r # <<>> /\ r[1] = "-"
             ds == IF r # <<>> /\ r[1] \in {"+", "-"} THEN Tail(r) ELSE r
         IN IF ds # <<>> /\ AllDigits(ds)
            THEN [ok |-> TRUE, e |-> IF neg THEN 0 - NatOf(ds) ELSE NatOf(ds)]
            ELSE [ok |-> FALSE, e |-> 0]

\* Number, with the sign already taken off.
ParseNumber(s, sign) ==
    LET ei == FirstIdx(s, {"e", "E"})
        mant == IF ei = 0 THEN s ELSE SubSeq(s, 1, ei - 1)
        ex == ParseExp(IF ei = 0 THEN <<>> ELSE SubSeq(s, ei, Len(s)))
        di == FirstIdx(mant, {"."})
        ip == IF di = 0 THEN mant ELSE SubSeq(mant, 1, di - 1)
        fp == IF di = 0 THEN <<>> ELSE SubSeq(mant, di + 1, Len(mant))
    IN IF ex.ok /\ AllDigits(ip) /\ AllDigits(fp) /\ Len(ip) + Len(fp) > 0
       THEN Finite(sign * NatOf(ip \o fp), ex.e - Len(fp))
       ELSE ParseFail

ParseF64(s) ==
    LET signed == s # <<>> /\ s[1] \in {"+", "-"}
        sign == IF s # <<>> /\ s[1] = "-" THEN 0 - 1 ELSE 1
        body == IF signed THEN Tail(s) ELSE s
        low == LowerStr(body)
    IN IF low \in {<<"i", "n", "f">>, <<"i", "n", "f", "i", "n", "i", "t", "y">>}
       THEN Infinite(sign)
       ELSE IF low = <<"n", "a", "n">> THEN NaN
       ELSE ParseNumber(body, sign)

\* value * unit as an integer, for a finite parse result (m * 10^e).
Scaled(v, unit) ==
    IF v.e >= 0 THEN v.m * Pow10(v.e) * unit
    ELSE (v.m * unit) \div Pow10(0 - v.e)

(***************************************************************************)
(* f64 results: [k |-> "fin", v |-> n], [k |-> "inf", v |-> sign] or       *)
(* [k |-> "nan", v |-> 0].                                                 *)
(***************************************************************************)
Fin(n) == [k |-> "fin", v |-> n]

\* deg + min / 60.0 + sec / 3600.0, in tenths of an arc-second.
TenthSecPerDeg == 36000
TenthSecPerMin == 600
TenthSecPerSec == 10

DmsSum(deg, min, sec) ==
    IF "nan" \in {deg.kind, min.kind, sec.kind} THEN [k |-> "nan", v |-> 0]
    ELSE IF deg.kind = "inf" THEN [k |-> "inf", v |-> deg.m]
    ELSE IF min.kind = "inf" THEN [k |-> "inf", v |-> min.m]
    ELSE IF sec.kind = "inf" THEN [k |-> "inf", v |-> sec.m]
    ELSE Fin(Scaled(deg, TenthSecPerDeg) + Scaled(min, TenthSecPerMin)
             + Scaled(sec, TenthSecPerSec))

Negate(x) == IF x.k = "nan" THEN x ELSE [k |-> x.k, v |-> 0 - x.v]

Panic == [tag |-> "panic"]

\* latlon[a..b] (bytes a .. b-1, counted from 0) parsed as f64; the slice
\* panics when the string is shorter than b, unwrap when the parse fails.
Field(latlon, a, b) ==
    IF Len(latlon) < b THEN ParseFail ELSE ParseF64(SubSeq(latlon, a + 1, b))

latlon_to_degrees_swapped(latlon) ==
    LET d1 == Field(latlon, 0, 2)
        m1 == Field(latlon, 2, 4)
        s1 == Field(latlon, 4, 6)
        d2 == Field(latlon, 8, 11)
        m2 == Field(latlon, 11, 13)
        s2 == Field(latlon, 13, 15)
    IN IF ~(d1.ok /\ m1.ok /\ s1.ok /\ d2.ok /\ m2.ok /\ s2.ok) \/ Len(latlon) < 16
       THEN Panic
       ELSE LET lat == DmsSum(d1, m1, s1)
                lon == DmsSum(d2, m2, s2)
            IN [tag |-> "ok",
                lat |-> IF latlon[16] = "W" THEN Negate(lat) ELSE lat,
                lon |-> IF latlon[7] = "S" THEN Negate(lon) ELSE lon]

latlon_to_degrees(latlon) ==
    LET d1 == Field(latlon, 0, 2)
        m1 == Field(latlon, 2, 4)
        s1 == Field(latlon, 4, 6)
        d2 == Field(latlon, 8, 11)
        m2 == Field(latlon, 11, 13)
        s2 == Field(latlon, 13, 15)
    IN IF ~(d1.ok /\ m1.ok /\ s1.ok /\ d2.ok /\ m2.ok /\ s2.ok) \/ Len(latlon) < 16
       THEN Panic
       ELSE LET lat == DmsSum(d1, m1, s1)
                lon == DmsSum(d2, m2, s2)
            IN [tag |-> "ok",
                lat |-> IF latlon[7] = "S" THEN Negate(lat) ELSE lat,
                lon |-> IF latlon[16] = "W" THEN Negate(lon) ELSE lon]

\* str::split(" "): the pieces between single spaces, empty pieces kept.
RECURSIVE Split(_)
Split(s) ==
    LET i == FirstIdx(s, {" "})
    IN IF i = 0 THEN <<s>>
       ELSE <<SubSeq(s, 1, i - 1)>> \o Split(SubSeq(s, i + 1, Len(s)))

\* Metres per nautical mile and per kilometre; results in tenths of a metre.
NmMetres == 1852
KmMetres == 1000
TenthsPerMetre == 10

MetresTimes(dist, factor) ==
    IF dist.kind = "fin" THEN Fin(Scaled(dist, factor * TenthsPerMetre))
    ELSE IF dist.kind = "inf" THEN [k |-> "inf", v |-> dist.m]
    ELSE [k |-> "nan", v |-> 0]

radius_to_metres_km(radius) ==
    LET parts == Split(radius)
        dist == ParseF64(parts[1])
    IN IF ~dist.ok \/ Len(parts) < 2 THEN Panic
       ELSE [tag |-> "ok", metres |-> MetresTimes(dist, KmMetres)]

radius_to_metres(radius) ==
    LET parts == Split(radius)
        dist == ParseF64(parts[1])
    IN IF ~dist.ok \/ Len(parts) < 2 THEN Panic
       ELSE IF parts[2] = <<"n", "m">>
            THEN [tag |-> "ok", metres |-> MetresTimes(dist, NmMetres)]
            ELSE [tag |-> "ok", metres |-> MetresTimes(dist, KmMetres)]

(***************************************************************************)
(* The dataset (Yaixm) and the feature index.  A name is a String; String  *)
(* order (Ord for str) is the lexicographic order of the bytes.            *)
(***************************************************************************)
Byte(c) == CASE c = "A" -> 65 [] c = "B" -> 66 [] c = "C" -> 67 [] c = "a" -> 97

RECURSIVE StrLeq(_, _)
StrLeq(a, b) ==
    IF a = <<>> THEN TRUE
    ELSE IF b = <<>> THEN FALSE
    ELSE IF Byte(a[1]) # Byte(b[1]) THEN Byte(a[1]) < Byte(b[1])
    ELSE StrLeq(Tail(a), Tail(b))

\* Vec<String>::sort (stable): insertion of each element after the last
\* element not greater than it.
RECURSIVE Insert(_, _)
Insert(x, sorted) ==
    IF sorted = <<>> THEN <<x>>
    ELSE IF StrLeq(sorted[1], x) THEN <<sorted[1]>> \o Insert(x, Tail(sorted))
    ELSE <<x>> \o sorted

RECURSIVE sort(_)
sort(v) == IF v = <<>> THEN <<>> ELSE Insert(v[Len(v)], sort(SubSeq(v, 1, Len(v) - 1)))

Feature(name, icao_type, local_type) ==
    [name |-> name, icao_type |-> icao_type, local_type |-> local_type]

Loa(name, default) == [name |-> name, default |-> default]

Yaixm(airspace, rat, loa) == [airspace |-> airspace, rat |-> rat, loa |-> loa]

\* iter().filter(..) is SelectSeq; .map(|x| x.name.clone()).collect() is NamesOf.
NamesOf(xs) == [i \in 1..Len(xs) |-> xs[i].name]

IsGlidingSite(x) == x.icao_type = "OTHER" /\ x.local_type = Some("GLIDER")
gliding_sites(yaixm) == NamesOf(SelectSeq(yaixm.airspace, IsGlidingSite))

rat_names(yaixm) == NamesOf(yaixm.rat)

\* Option<bool>::unwrap_or(false)
UnwrapOrFalse(o) == IF o.some THEN o.val ELSE FALSE

loa_names_all(yaixm) == NamesOf(yaixm.loa)

IsNotDefaultLoa(x) == ~UnwrapOrFalse(x.default)
loa_names(yaixm) == NamesOf(SelectSeq(yaixm.loa, IsNotDefaultLoa))

IsWaveBox(x) == x.icao_type = "D_OTHER" /\ x.local_type = Some("GLIDER")
wave_names(yaixm) == NamesOf(SelectSeq(yaixm.airspace, IsWaveBox))

(***************************************************************************)
(* Settings and the encoder.  Both modules (settings, convert) are used by *)
(* main.rs; of Settings the shell reads the overlay field only.            *)
(***************************************************************************)
Overlays == {"FL195", "FL105", "AtzDz"}

NamePool == {<<"A">>, <<"A", "B">>, <<"B">>}

SelectableRat == {<<"A">>}

SettingsValues ==
    [overlay : {None} \cup {Some(o) : o \in Overlays}, rat : SUBSET SelectableRat]

DefaultSettings == [overlay |-> None, rat |-> {}]

RECURSIVE Lines(_)
Lines(names) ==
    IF names = <<>> THEN <<>> ELSE names[1] \o <<"\n">> \o Lines(Tail(names))

\* convert::openair: a header comment line, then the selected features, one
\* block each (here: the selected temporary restrictions, by name).
openair(yaixm, s, user_agent) ==
    LET chosen(x) == x.name \in s.rat
    IN <<"*", " ">> \o user_agent \o <<"\n">>
       \o Lines(NamesOf(SelectSeq(yaixm.rat, chosen)))

UserAgent == <<"U", "A">>

(***************************************************************************)
(* The overlay files and the placeholders of the download callback.        *)
(***************************************************************************)
Paths == {"overlay_195.txt", "overlay_105.txt", "overlay_atzdz.txt"}

\* What the server holds at each path.
ServerFile(path) ==
    CASE path = "overlay_195.txt" -> <<"A", "C", " ", "1", "9", "5", "\n">>
      [] path = "overlay_105.txt" -> <<"A", "C", " ", "1", "0", "5", "\n">>
      [] path = "overlay_atzdz.txt" -> <<"*", "D", "Z", "\n">>

MissingOverlayData ==
    <<"*", " ", "M", "i", "s", "s", "i", "n", "g", " ", "o", "v", "e", "r", "l", "a", "y",
      " ", "d", "a", "t", "a">>

OverlayDataNotLoaded ==
    <<"*", " ", "O", "v", "e", "r", "l", "a", "y", " ", "d", "a", "t", "a", " ", "n", "o",
      "t", " ", "l", "o", "a", "d", "e", "d">>

OverlayData(o_195, o_105, o_atzdz) ==
    [overlay_195 |-> o_195, overlay_105 |-> o_105, overlay_atzdz |-> o_atzdz]

\* join!(overlay_195, overlay_105, overlay_atzdz) returns once every future has.
JoinReady_any(pc) == \E p \in Paths : pc[p] = "done"

JoinReady(pc) == \A p \in Paths : pc[p] = "done"

\* The value of the async_overlay resource for the fetches in state pc, res.
OverlayResource(pc, res) ==
    IF JoinReady(pc)
    THEN Some(OverlayData(res["overlay_195.txt"], res["overlay_105.txt"],
                          res["overlay_atzdz.txt"]))
    ELSE None

\* Option<String>::unwrap_or
UnwrapOr(o, dflt) == IF o.some THEN o.val ELSE dflt

\* od of the download callback: s is settings(), got is overlay.get().
overlay_text_silent(s, got) ==
    IF s.overlay.some
    THEN IF got.some
         THEN LET overlay_data == got.val
                  x == CASE s.overlay.val = "FL195" -> overlay_data.overlay_195
                         [] s.overlay.val = "FL105" -> overlay_data.overlay_105
                         [] s.overlay.val = "AtzDz" -> overlay_data.overlay_atzdz
              IN UnwrapOr(x, <<>>)
         ELSE OverlayDataNotLoaded
    ELSE <<>>

overlay_text_crossed(s, got) ==
    IF s.overlay.some
    THEN IF got.some
         THEN LET overlay_data == got.val
                  x == CASE s.overlay.val = "FL195" -> overlay_data.overlay_105
                         [] s.overlay.val = "FL105" -> overlay_data.overlay_195
                         [] s.overlay.val = "AtzDz" -> overlay_data.overlay_atzdz
              IN UnwrapOr(x, MissingOverlayData)
         ELSE OverlayDataNotLoaded
    ELSE <<>>

overlay_text(s, got) ==
    IF s.overlay.some
    THEN IF got.some
         THEN LET overlay_data == got.val
                  x == CASE s.overlay.val = "FL195" -> overlay_data.overlay_195
                         [] s.overlay.val = "FL105" -> overlay_data.overlay_105
                         [] s.overlay.val = "AtzDz" -> overlay_data.overlay_atzdz
              IN UnwrapOr(x, MissingOverlayData)
         ELSE OverlayDataNotLoaded
    ELSE <<>>

(***************************************************************************)
(* App: the view is a function of async_yaixm.get(); it is re-rendered in  *)
(* the task that resolves the resource, before any user event is served.   *)
(***************************************************************************)
AppView_swapped(got) ==
    IF got.some
    THEN IF got.val.some THEN "main" ELSE "wait"
    ELSE "error"

AppView(got) ==
    IF got.some
    THEN IF got.val.some THEN "main" ELSE "error"
    ELSE "wait"

\* MainView's set-up: the working copy of the stored settings and the name
\* lists of the selection UI.
MainView(yaixm, overlay) ==
    /\ settings' = Some(local_settings)
    /\ rat_ui' = rat_names(yaixm)
    /\ loa_ui' = sort(loa_names(yaixm))
    /\ wave_ui' = sort(wave_names(yaixm))
    /\ sites_ui' = sort(gliding_sites(yaixm))

\* fetch_yaixm has returned result: the resource resolves and App renders.
YaixmResolved(result) ==
    /\ yaixm_pc' = "done"
    /\ async_yaixm' = Some(result)
    /\ view' = AppView(Some(result))
    /\ IF view' = "main"
       THEN MainView(result.val, async_overlay)
       ELSE UNCHANGED <<settings, rat_ui, loa_ui, wave_ui, sites_ui>>
    /\ event' = "fetch_yaixm"
    /\ UNCHANGED <<geo_vars, ov_pc, ov_res, async_overlay, local_settings, out_vars>>

\* Request::get("yaixm.json").send().await
FetchYaixmSend ==
    /\ yaixm_pc = "send"
    /\ \/ /\ yaixm_pc' = "json"
          /\ event' = "fetch_yaixm"
          /\ UNCHANGED <<geo_vars, async_yaixm, ov_pc, ov_res, async_overlay, ui_vars,
                         out_vars>>
       \/ YaixmResolved(None)

\* response.json().await.ok(), decoded being the document when it decodes.
FetchYaixmJson(decoded) ==
    /\ yaixm_pc = "json"
    /\ YaixmResolved(decoded)

\* fetch_overlay(path) has returned result; the join completes with the last.
OverlayDone(path, result) ==
    /\ ov_pc' = [ov_pc EXCEPT ![path] = "done"]
    /\ ov_res' = [ov_res EXCEPT ![path] = result]
    /\ async_overlay' = OverlayResource(ov_pc', ov_res')

\* Request::get(path).send().await
FetchOverlaySend(path) ==
    /\ ov_pc[path] = "send"
    /\ \/ /\ ov_pc' = [ov_pc EXCEPT ![path] = "text"]
          /\ UNCHANGED <<ov_res, async_overlay>>
       \/ OverlayDone(path, None)
    /\ event' = "fetch_overlay"
    /\ UNCHANGED <<geo_vars, yaixm_pc, async_yaixm, ui_vars, out_vars>>

\* response.text().await.ok()
FetchOverlayText(path) ==
    /\ ov_pc[path] = "text"
    /\ \/ OverlayDone(path, Some(ServerFile(path)))
       \/ OverlayDone(path, None)
    /\ event' = "fetch_overlay"
    /\ UNCHANGED <<geo_vars, yaixm_pc, async_yaixm, ui_vars, out_vars>>

\* A component of the settings form sets the working copy (set_settings).
EditSettings_writethrough(s) ==
    /\ view = "main"
    /\ settings # Some(s)
    /\ settings' = Some(s)
    /\ local_settings' = s
    /\ event' = "edit"
    /\ UNCHANGED <<geo_vars, fetch_vars, view, rat_ui, loa_ui,
                   wave_ui, sites_ui, out_vars>>

EditSettings(s) ==
    /\ view = "main"
    /\ settings # Some(s)
    /\ settings' = Some(s)
    /\ event' = "edit"
    /\ UNCHANGED <<geo_vars, fetch_vars, view, local_settings, rat_ui, loa_ui,
                   wave_ui, sites_ui, out_vars>>

\* The download button's callback.
download ==
    /\ view = "main"
    /\ local_settings' = settings.val
    /\ LET yaixm == async_yaixm.val.val
           oa == openair(yaixm, settings.val, UserAgent)
           od == overlay_text(settings.val, async_overlay)
       IN /\ conv' = Some([yaixm |-> yaixm, settings |-> settings.val])
          /\ blob' = Some(oa \o od)
    /\ event' = "download"
    /\ UNCHANGED <<geo_vars, fetch_vars, view, settings, rat_ui, loa_ui, wave_ui,
                   sites_ui>>

(***************************************************************************)
(* The geo primitives, applied to a literal.                               *)
(***************************************************************************)
CallLatlonToDegrees ==
    /\ geo_call = "none"
    /\ geo_call' = "latlon_to_degrees"
    /\ geo_ret' = latlon_to_degrees(geo_arg)
    /\ UNCHANGED <<geo_arg, fetch_vars, ui_vars, out_vars, event>>

CallRadiusToMetres ==
    /\ geo_call = "none"
    /\ geo_call' = "radius_to_metres"
    /\ geo_ret' = radius_to_metres(geo_arg)
    /\ UNCHANGED <<geo_arg, fetch_vars, ui_vars, out_vars, event>>

(***************************************************************************)
(* Inputs.                                                                 *)
(***************************************************************************)
RatFeature(name) == Feature(name, "D_OTHER", Some("RAT"))

\* Two documents the server may hold, for the application's runs.
SampleDatasets ==
    { Yaixm(<<Feature(<<"B">>, "OTHER", Some("GLIDER")),
              Feature(<<"A">>, "D_OTHER", Some("GLIDER")),
              Feature(<<"A", "B">>, "CTR", None)>>,
            <<RatFeature(<<"B">>), RatFeature(<<"A">>)>>,
            <<Loa(<<"B">>, Some(TRUE)), Loa(<<"A">>, None)>>),
      Yaixm(<<>>, <<>>, <<>>) }

\* Every document of at most MaxItems features and agreements in all.
MaxItems == 2

RatKinds == {RatFeature(n) : n \in NamePool}
LoaKinds == {Loa(n, d) : n \in NamePool, d \in {None, Some(TRUE), Some(FALSE)}}
AirKinds == {Feature(n, t, l) : n \in NamePool, t \in {"OTHER", "D_OTHER", "CTR"},
                                l \in {None, Some("GLIDER"), Some("DZ")}}

AllDatasets ==
    UNION { { Yaixm(a, r, l) : a \in [1..n[1] -> AirKinds], r \in [1..n[2] -> RatKinds],
                               l \in [1..n[3] -> LoaKinds] }
            : n \in {m \in (0..MaxItems) \X (0..MaxItems) \X (0..MaxItems) :
                       m[1] + m[2] + m[3] <= MaxItems} }

\* Coordinate literals: the six numeric fields, the two hemisphere letters
\* and the separator, each from a few values, then cut short or extended.
LatDegFields == {<<"5", "1">>, <<"0", "0">>, <<"5", "x">>}
LatMinFields == {<<"5", "8">>, <<"0", "7">>, <<"+", "5">>}
LatSecFields == {<<"1", "2">>, <<"5", "9">>, <<".", "5">>}
LonDegFields == {<<"0", "0", "0">>, <<"1", "7", "9">>, <<"i", "n", "f">>, <<"1", "e", "2">>}
LonMinFields == {<<"1", "5">>, <<"5", "9">>, <<"0", "x">>}
LonSecFields == {<<"5", "0">>, <<"5", "9">>}
LatHemis == {"N", "S", "X"}
LonHemis == {"E", "W", "Q"}

CoordLiterals ==
    { d1 \o m1 \o s1 \o <<h1, " ">> \o d2 \o m2 \o s2 \o <<h2>> \o t :
        d1 \in LatDegFields, m1 \in LatMinFields, s1 \in LatSecFields, h1 \in LatHemis,
        d2 \in LonDegFields, m2 \in LonMinFields, s2 \in LonSecFields, h2 \in LonHemis,
        t \in {<<>>, <<"Z">>} }
    \cup { SubSeq(<<"5", "1", "5", "8", "1", "2", "N", " ", "0", "0", "0", "1", "5", "5",
                    "0", "W">>, 1, n) : n \in {0, 5, 7, 15} }

Magnitudes == {<<"5">>, <<"3">>, <<"0", ".", "5">>, <<"1", "0">>, <<"x">>, <<>>}
UnitTokens == {<<"n", "m">>, <<"k", "m">>, <<"m">>, <<"N", "M">>, <<>>}

DistLiterals ==
    { m \o <<" ">> \o u : m \in Magnitudes, u \in UnitTokens }
    \cup { m \o u : m \in Magnitudes, u \in UnitTokens }
    \cup { m \o <<" ", " ">> \o u : m \in Magnitudes, u \in UnitTokens }

(***************************************************************************)
(* Specifications.                                                         *)
(***************************************************************************)
Start ==
    /\ geo_arg = <<>>
    /\ geo_call = "none"
    /\ geo_ret = None
    /\ yaixm_pc = "send"
    /\ async_yaixm = None
    /\ ov_pc = [p \in Paths |-> "send"]
    /\ ov_res = [p \in Paths |-> None]
    /\ async_overlay = None
    /\ view = AppView(None)
    /\ settings = None
    /\ rat_ui = <<>>
    /\ loa_ui = <<>>
    /\ wave_ui = <<>>
    /\ sites_ui = <<>>
    /\ blob = None
    /\ conv = None
    /\ event = "mount"

\* The application: any stored settings, the server's files and documents.
Init ==
    /\ Start
    /\ local_settings \in SettingsValues

Next ==
    \/ FetchYaixmSend
    \/ \E d \in {None} \cup {Some(y) : y \in SampleDatasets} : FetchYaixmJson(d)
    \/ \E p \in Paths : FetchOverlaySend(p)
    \/ \E p \in Paths : FetchOverlayText(p)
    \/ \E s \in SettingsValues : EditSettings(s)
    \/ download

Spec == Init /\ [][Next]_vars

\* The feature index: the main view set up for any document.
InitIndex ==
    /\ Start
    /\ local_settings = DefaultSettings

NextIndex ==
    \/ FetchYaixmSend
    \/ \E d \in {None} \cup {Some(y) : y \in AllDatasets} : FetchYaixmJson(d)

SpecIndex == InitIndex /\ [][NextIndex]_vars

\* The geo primitives: each applied to any literal.
InitGeo ==
    /\ yaixm_pc = "send"
    /\ async_yaixm = None
    /\ ov_pc = [p \in Paths |-> "send"]
    /\ ov_res = [p \in Paths |-> None]
    /\ async_overlay = None
    /\ view = AppView(None)
    /\ settings = None
    /\ rat_ui = <<>>
    /\ loa_ui = <<>>
    /\ wave_ui = <<>>
    /\ sites_ui = <<>>
    /\ blob = None
    /\ conv = None
    /\ event = "mount"
    /\ local_settings = DefaultSettings
    /\ geo_arg \in CoordLiterals \cup DistLiterals
    /\ geo_call = "none"
    /\ geo_ret = None

NextGeo ==
    \/ CallLatlonToDegrees
    \/ CallRadiusToMetres

SpecGeo == InitGeo /\ [][NextGeo]_vars

(***************************************************************************)
(* Properties.                                                             *)
(***************************************************************************)
IsDigitAt(l, i) == l[i] \in Digits
D(l, i) == DigitVal(l[i])

\* DDMMSS + N/S, one separator character, DDDMMSS + E/W.
ValidCoord(l) ==
    /\ Len(l) = 16
    /\ \A i \in (1..6) \cup (9..15) : IsDigitAt(l, i)
    /\ l[7] \in {"N", "S"}
    /\ l[16] \in {"E", "W"}

LatArcSeconds(l) ==
    3600 * (10 * D(l, 1) + D(l, 2)) + 60 * (10 * D(l, 3) + D(l, 4)) + 10 * D(l, 5) + D(l, 6)

LonArcSeconds(l) ==
    3600 * (100 * D(l, 9) + 10 * D(l, 10) + D(l, 11)) + 60 * (10 * D(l, 12) + D(l, 13))
    + 10 * D(l, 14) + D(l, 15)

ExampleCoord ==
    <<"5", "1", "5", "8", "1", "2", "N", " ", "0", "0", "0", "1", "5", "5", "0", "W">>

\* C1: for every valid 16-character literal latlon_to_degrees returns the
\* latitude deg + min/60 + sec/3600, negative exactly for S, and the longitude
\* likewise, negative exactly for W (compared in tenths of an arc-second).
C1_SignedDegrees ==
    (geo_call = "latlon_to_degrees" /\ ValidCoord(geo_arg)) =>
        /\ geo_ret.tag = "ok"
        /\ geo_ret.lat = Fin((IF geo_arg[7] = "S" THEN 0 - 10 ELSE 10) * LatArcSeconds(geo_arg))
        /\ geo_ret.lon = Fin((IF geo_arg[16] = "W" THEN 0 - 10 ELSE 10) * LonArcSeconds(geo_arg))

\* "515812N 0001550W" gives 51 deg 58 min 12 s north, 0 deg 15 min 50 s west.
C1_Witness ==
    /\ geo_call = "latlon_to_degrees"
    /\ geo_arg = ExampleCoord
    /\ geo_ret = [tag |-> "ok", lat |-> Fin(1870920), lon |-> Fin(0 - 9500)]

\* The literal has the expected length and shape and its six fields parse.
WellFormedCoord(l) ==
    /\ Len(l) = 16
    /\ l[7] \in {"N", "S"}
    /\ l[16] \in {"E", "W"}
    /\ ParseF64(SubSeq(l, 1, 2)).ok /\ ParseF64(SubSeq(l, 3, 4)).ok
    /\ ParseF64(SubSeq(l, 5, 6)).ok /\ ParseF64(SubSeq(l, 9, 11)).ok
    /\ ParseF64(SubSeq(l, 12, 13)).ok /\ ParseF64(SubSeq(l, 14, 15)).ok

\* C2: the coordinate parser fails (never returns a coordinate pair) for every
\* literal with a numeric field that does not parse, or that is not exactly 16
\* characters with N/S at position 6 and E/W at position 15.
C2_MalformedRejected ==
    (geo_call = "latlon_to_degrees" /\ ~WellFormedCoord(geo_arg)) => geo_ret = Panic

\* Magnitudes and their values in tenths.
MagnitudeTable ==
    { [chars |-> <<"5">>, tenths |-> 50], [chars |-> <<"3">>, tenths |-> 30],
      [chars |-> <<"0", ".", "5">>, tenths |-> 5], [chars |-> <<"1", "0">>, tenths |-> 100] }

\* C3: for every literal "<magnitude> <unit>" radius_to_metres returns
\* magnitude * 1852 when the unit token is exactly "nm" and magnitude * 1000
\* for every other unit token (compared in tenths of a metre).
C3_NmElseKm ==
    geo_call = "radius_to_metres" =>
        \A m \in MagnitudeTable : \A u \in UnitTokens :
            geo_arg = m.chars \o <<" ">> \o u =>
                geo_ret = [tag |-> "ok",
                           metres |-> Fin(m.tenths * (IF u = <<"n", "m">> THEN 1852 ELSE 1000))]

\* "5 nm" gives 9260 metres.
C3_Witness ==
    /\ geo_call = "radius_to_metres"
    /\ geo_arg = <<"5", " ", "n", "m">>
    /\ geo_ret = [tag |-> "ok", metres |-> Fin(92600)]

IsSorted(v) == \A i \in 1..(Len(v) - 1) : StrLeq(v[i], v[i + 1])

\* C4: every list of selectable names handed to the selection UI (RAT,
\* local-agreement, wave-box and gliding-site names) is sorted
\* lexicographically, whatever the declaration order in the dataset.
C4_AllListsSorted ==
    view = "main" =>
        IsSorted(rat_ui) /\ IsSorted(loa_ui) /\ IsSorted(wave_ui) /\ IsSorted(sites_ui)

PathOf(o) ==
    CASE o = "FL195" -> "overlay_195.txt"
      [] o = "FL105" -> "overlay_105.txt"
      [] o = "AtzDz" -> "overlay_atzdz.txt"

AllFetched == \A p \in Paths : ov_pc[p] = "done"
OverlaySelected == settings.some /\ settings.val.overlay.some
SelectedPath == PathOf(settings.val.overlay.val)
EncoderOutput == openair(async_yaixm.val.val, settings.val, UserAgent)
JustDownloaded == event = "download"
IsPlaceholderLine(t) == t # <<>> /\ t[1] = "*" /\ \A i \in 1..Len(t) : t[i] # "\n"

\* C5: a download with an overlay selected is never blocked, whatever the
\* state of the overlay fetches, and when the selected overlay's fetch failed
\* or the overlay data is not yet available the output is the converted text
\* followed by a placeholder comment line starting with "*".
C5_PlaceholderNotAbort ==
    /\ view = "main" => ENABLED download
    /\ (JustDownloaded /\ OverlaySelected /\ (~AllFetched \/ ~ov_res[SelectedPath].some)) =>
           /\ blob.some
           /\ \E ph \in {MissingOverlayData, OverlayDataNotLoaded} :
                  blob.val = EncoderOutput \o ph /\ IsPlaceholderLine(ph)

C5_Witness ==
    /\ JustDownloaded /\ OverlaySelected /\ AllFetched
    /\ ~ov_res[SelectedPath].some
    /\ blob = Some(EncoderOutput \o MissingOverlayData)

\* C6 as stated: the downloaded text is the encoder's output followed by the
\* empty string when no overlay is selected and, when one is selected and its
\* fetch succeeded, by exactly the fetched text of the corresponding file.
C6_Original ==
    JustDownloaded =>
        /\ ~OverlaySelected => blob = Some(EncoderOutput)
        /\ (OverlaySelected /\ ov_res[SelectedPath].some) =>
               blob = Some(EncoderOutput \o ov_res[SelectedPath].val)

\* C6, amended: the downloaded text is the encoder's output followed by the
\* empty string when no overlay is selected and, when one is selected, all
\* three overlay fetches have finished and its own fetch succeeded, by exactly
\* the text of the corresponding file; the text of another overlay never
\* follows the encoder's output.
C6_VerbatimOverlay ==
    JustDownloaded =>
        /\ ~OverlaySelected => blob = Some(EncoderOutput)
        /\ (OverlaySelected /\ AllFetched /\ ov_res[SelectedPath].some) =>
               blob = Some(EncoderOutput \o ServerFile(SelectedPath))
        /\ OverlaySelected =>
               \A q \in Paths \ {SelectedPath} : blob # Some(EncoderOutput \o ServerFile(q))

C6_Witness ==
    /\ JustDownloaded /\ OverlaySelected /\ AllFetched
    /\ settings.val.overlay.val = "FL105"
    /\ blob = Some(EncoderOutput \o ServerFile("overlay_105.txt"))

\* C7: the settings form and the download action exist only when the dataset
\* fetch and decode succeeded: the wait message while the fetch is pending,
\* the error message after a failed request or decode, and no conversion is
\* ever run without a decoded dataset.
C7_FormOnlyWithDataset ==
    /\ ~async_yaixm.some => view = "wait"
    /\ (async_yaixm.some /\ ~async_yaixm.val.some) => view = "error"
    /\ view = "main" => (async_yaixm.some /\ async_yaixm.val.some /\ settings.some)
    /\ view # "main" =>
           /\ settings = None /\ blob = None /\ conv = None
           /\ ~ENABLED download
           /\ \A s \in SettingsValues : ~ENABLED EditSettings(s)
    /\ conv.some => (async_yaixm = Some(Some(conv.val.yaixm))
                     /\ conv.val.yaixm \in SampleDatasets)

C7_Witness == view = "main" /\ conv.some /\ blob.some /\ yaixm_pc = "done"

\* C8: the stored settings change only in a download, which sets them to the
\* working settings of that moment, the settings also passed to the
\* conversion; edits leave the stored value alone; the working copy starts as
\* the stored value when the main view is created.
C8_StoredOnlyOnDownload ==
    [][ /\ event' = "download" =>
               /\ local_settings' = settings.val
               /\ settings' = settings
               /\ conv' = Some([yaixm |-> async_yaixm.val.val, settings |-> settings.val])
        /\ event' # "download" => local_settings' = local_settings
        /\ (view # "main" /\ view' = "main") => settings' = Some(local_settings) ]_vars

C8_Witness ==
    /\ event = "edit" /\ conv.some
    /\ local_settings = conv.val.settings
    /\ settings.val # local_settings

\* C9: overlay data is available to a download only after all three fetches
\* have finished: with an overlay selected the download emits
\* "* Overlay data not loaded" exactly when some fetch has not finished, and
\* once all have, the result depends only on the selected overlay's own fetch.
C9_JoinedOverlay ==
    /\ async_overlay.some <=> AllFetched
    /\ (JustDownloaded /\ OverlaySelected) =>
           /\ blob = Some(EncoderOutput \o OverlayDataNotLoaded) <=> ~AllFetched
           /\ AllFetched =>
                  blob = Some(EncoderOutput \o
                              (IF ov_res[SelectedPath].some THEN ov_res[SelectedPath].val
                               ELSE MissingOverlayData))

C9_Witness ==
    /\ JustDownloaded /\ OverlaySelected
    /\ ov_res[SelectedPath].some
    /\ ~AllFetched
    /\ blob = Some(EncoderOutput \o OverlayDataNotLoaded)

\* The positions of the agreements that are not flagged default = true.
NonDefaultIdx(loa) == {i \in 1..Len(loa) : loa[i].default # Some(TRUE)}

\* C10: loa_names returns, in declaration order, the names of exactly the
\* local agreements whose default flag is absent or false, and the selection
\* list offers those names and no other.
C10_NonDefaultLoaOnly ==
    view = "main" =>
        LET loa == async_yaixm.val.val.loa
            idx == NonDefaultIdx(loa)
            r == loa_names(async_yaixm.val.val)
        IN /\ Len(r) = Cardinality(idx)
           /\ \A i \in idx : r[Cardinality({j \in idx : j <= i})] = loa[i].name
           /\ Len(loa_ui) = Len(r)
           /\ {loa_ui[k] : k \in 1..Len(loa_ui)} = {loa[i].name : i \in idx}

C10_Witness ==
    /\ view = "main"
    /\ async_yaixm.val.val.loa = <<Loa(<<"B">>, Some(TRUE)), Loa(<<"A">>, Some(FALSE))>>
    /\ loa_ui = <<<<"A">>>>

====
